---- MODULE Spec2Model ----
(***************************************************************************)
(* Batched beam search of nmtpytorch (MMT/nmtpytorch/search.py).           *)
(*                                                                         *)
(* Tensors are functions over zero-based index ranges, as in the source:   *)
(*   beam_storage[t][b][j]   token id (max_len x max_batch_size x k)       *)
(*   nll[b][j]               running score (batch.size x 1, then x k)      *)
(*   log_p[i][v]             step log-probabilities, i a flat row          *)
(*   idxs[i], tile[i]        flat (b*k + j) vectors                        *)
(* Log-probabilities are integers (a fixed-point unit); every row the      *)
(* decoders return is <= 0 and far above the sentinel inf = -1000.         *)
(***************************************************************************)
EXTENDS Integers, Sequences, FiniteSets, TLC

\* ------------------------------------------------------------------ bounds
MaxLen == 3          \* largest max_len argument
NSamples == 3        \* largest data set
BatchSizes == {1, 2} \* batch_sampler.batch_size of the loaders
BeamSizes == {1, 2}  \* beam_size arguments
Alphas == {0, 1, 2}  \* lp_alpha arguments (integral)

\* ----------------------------------------------------------- zero-based lists
Z(n) == 0 .. (n - 1)
ZLen(f) == Cardinality(DOMAIN f)
ZCat(f, g) ==
    [i \in Z(ZLen(f) + ZLen(g)) |-> IF i < ZLen(f) THEN f[i] ELSE g[i - ZLen(f)]]
ZOfSeq(s) == [i \in Z(Len(s)) |-> s[i + 1]]
Min(a, b) == IF a < b THEN a ELSE b

RECURSIVE Pow(_, _)
Pow(x, n) == IF n = 0 THEN 1 ELSE x * Pow(x, n - 1)

\* ------------------------------------------------------------- vocabulary
\* The target vocabulary of the call gives the ids of its special tokens.
\* StdVocab is the layout {pad:0, bos:1, eos:2, unk:3, a:4, b:5}; Vocabularies
\* adds a layout whose <eos> and <unk> ids are exchanged.
VARIABLE vocab
StdVocab == [pad |-> 0, bos |-> 1, eos |-> 2, unk |-> 3]
Vocabularies == {StdVocab, [pad |-> 0, bos |-> 1, eos |-> 3, unk |-> 2]}
pad == vocab.pad
bos == vocab.bos
eos == vocab.eos
unk == vocab.unk
n_vocab == 6
Vocab == Z(n_vocab)

\* sentinel of search.py
inf == -1000

\* ------------------------------------------------------------ model adapters
\* A model is an adapter id.  encode gives one context column per sample (the
\* column is the sample's identity); the decoder state row remembers the
\* sample it was initialised from and the tokens it has consumed.
AdapterIds == {0, 1}

\* Fixed log-probability rows over <<pad, bos, eos, unk, a, b>>.
LogProbRows ==
    << [v \in Vocab |-> <<-9, -9, -3, -4, -1, -2>>[v + 1]],
       [v \in Vocab |-> <<-9, -9, -1, -5, -2, -3>>[v + 1]],
       [v \in Vocab |-> <<-9, -9, -3, -1, -2, -2>>[v + 1]],
       [v \in Vocab |-> <<-9, -9,  0, -9, -9, -9>>[v + 1]],
       [v \in Vocab |-> <<-9, -9, -2, -6, -1, -1>>[v + 1]] >>

encode(batch) == [i \in DOMAIN batch |-> batch[i]]

f_init(ctx) == [i \in DOMAIN ctx |-> [src |-> ctx[i], ys |-> <<>>]]

\* dec.f_next(ctx column, emb(y), state row): the log-probability row and the
\* next state row.  The row is a deterministic function of all three inputs.
f_next(m, c, y, h) ==
    [log_p |-> LogProbRows[((m + 3 * c + h.src + 2 * y + Len(h.ys)) % Len(LogProbRows)) + 1],
     h     |-> [src |-> h.src, ys |-> Append(h.ys, y)]]

get_bos(n) == [i \in Z(n) |-> bos]

\* vocab.list_of_idxs_to_sents: each row is cut at its first <eos>.
RECURSIVE idxs_to_sent(_, _)
idxs_to_sent(hyp, i) ==
    IF i >= ZLen(hyp) \/ hyp[i] = eos THEN <<>>
    ELSE <<hyp[i]>> \o idxs_to_sent(hyp, i + 1)

\* --------------------------------------------------------------- data loader
RECURSIVE Splits(_, _)
\* the batch sizes a sampler of batch size mb may yield for n samples
Splits(n, mb) ==
    IF n = 0 THEN {<<>>}
    ELSE UNION {{<<s>> \o r : r \in Splits(n - s, mb)} : s \in 1 .. Min(mb, n)}

Perms(n) == {p \in [Z(n) -> Z(n)] : \A i, j \in Z(n) : i # j => p[i] # p[j]}

RECURSIVE Offset(_, _)
Offset(sizes, i) == IF i = 1 THEN 0 ELSE Offset(sizes, i - 1) + sizes[i - 1]

\* batches of the samples in processing order; a sample is its original index
MkBatches(order, sizes) ==
    [i \in 1 .. Len(sizes) |-> [p \in Z(sizes[i]) |-> order[Offset(sizes, i) + p]]]

Loaders ==
    UNION {UNION {UNION {
        {[batch_size |-> mb,
          store_indices |-> TRUE,
          orig_idxs |-> p,
          batches |-> MkBatches(p, sz)] : p \in Perms(n)}
        \cup
        {[batch_size |-> mb,
          store_indices |-> FALSE,
          orig_idxs |-> [i \in Z(n) |-> i],
          batches |-> MkBatches([i \in Z(n) |-> i], sz)]}
        : sz \in Splits(n, mb)} : n \in 1 .. NSamples} : mb \in BatchSizes}

ModelLists == {<<>>} \cup {ZOfSeq(<<a>>) : a \in AdapterIds}
              \cup {ZOfSeq(<<0, 0>>), ZOfSeq(<<0, 1>>)}

\* ------------------------------------------------------------------- state
VARIABLES
    models, data_loader, beam_size, max_len, lp_alpha, suppress_unk, \* arguments
    pc, error,          \* position in beam_search; the exception that ended it
    bi, batch,          \* index of the current batch in the loader; its samples
    n_encoded,          \* number of batches the encoders have been run on
    results,
    beam_storage, nll_storage,
    nll, tile, ctx_dicts, h_ts, idxs, t,
    nll_is_view,        \* nll is still the view of nll_storage of line 91
    log_p, pdxs,        \* the last step's scored rows and ancestor slots
    lens, lp, top_hyps  \* lp of line 163, lp of lines 165-166, line 169

args == <<models, data_loader, beam_size, max_len, lp_alpha, suppress_unk, vocab>>
loop_vars == <<nll, tile, ctx_dicts, h_ts, idxs, t, log_p, pdxs, nll_is_view>>
vars == <<args, pc, error, bi, batch, n_encoded, results, beam_storage,
          nll_storage, loop_vars, lens, lp, top_hyps>>

k == beam_size
max_batch_size == data_loader.batch_size
batch_size == ZLen(batch)       \* batch.size

\* ------------------------------------------------------ one step of the loop
\* line 9-15: re-index the context along the sample axis
tile_ctx_dict(ctx_dict, idxs_) == [i \in DOMAIN idxs_ |-> ctx_dict[idxs_[i]]]

RECURSIVE Sum(_, _)
Sum(f, n) == IF n = 0 THEN 0 ELSE Sum(f, n - 1) + f[n - 1]

\* (mutation of Ensemble: only the first model's log-probabilities are used)
Ensemble_first(log_ps) == log_ps[0]

\* line 122: log_p = sum(log_ps)
Ensemble(log_ps) ==
    [i \in DOMAIN log_ps[0] |->
        [v \in Vocab |-> Sum([m \in DOMAIN log_ps |-> log_ps[m][i][v]], ZLen(log_ps))]]

\* lines 123-124: log_p[:, unk] = inf
SuppressUnk(lg, flag) ==
    IF flag THEN [i \in DOMAIN lg |-> [lg[i] EXCEPT ![unk] = inf]] ELSE lg

\* line 127: (idxs == 2).nonzero()
EosHyps(ix) == {i \in DOMAIN ix : ix[i] = 2}

\* (mutation of AllFinished: the loop is left as soon as any slot is finished)
AllFinished_any(E, n) == E # {}

\* lines 128-130: every beam slot of the batch has emitted <eos>
AllFinished(E, n) == E # {} /\ Cardinality(E) = n

\* (mutation of PinEos: line 135 left out, <eos> is unfavored with the rest)
PinEos_unfavored(lg, E) ==
    [i \in DOMAIN lg |-> IF i \in E THEN [v \in Vocab |-> inf] ELSE lg[i]]

\* lines 133-135: unfavor every candidate of a finished row, favor <eos>
PinEos(lg, E) ==
    [i \in DOMAIN lg |->
        IF i \in E THEN [v \in Vocab |-> IF v = 2 THEN 0 ELSE inf] ELSE lg[i]]

\* (mutation of CrossSum: the step's log-probability subtracted, not added)
CrossSum_sub(nl, lg, b) ==
    LET W == ZLen(nl[b])
    IN  [f \in Z(W * n_vocab) |->
            nl[b][f \div n_vocab] - lg[b * W + (f \div n_vocab)][f % n_vocab]]

\* lines 142-143: nll.unsqueeze_(2).add(log_p.view(N, -1, V)).view(N, -1), row b
CrossSum(nl, lg, b) ==
    LET W == ZLen(nl[b])
    IN  [f \in Z(W * n_vocab) |->
            nl[b][f \div n_vocab] + lg[b * W + (f \div n_vocab)][f % n_vocab]]

\* (mutation of TopK: largest=False, the k smallest positions)
TopK_smallest(scores, kk) ==
    {sel \in [Z(kk) -> DOMAIN scores] :
        /\ \A i, j \in Z(kk) : i # j => sel[i] # sel[j]
        /\ \A u \in DOMAIN scores :
              (\A j \in Z(kk) : sel[j] # u) =>
                  \A j \in Z(kk) : scores[u] >= scores[sel[j]]}

\* line 143-144: topk(k, sorted=False, largest=True) of one row: any k distinct
\* positions none of which is beaten by a position left out, in any order.
\* (Only a position with fewer than k strictly better ones can be selected.)
TopK(scores, kk) ==
    LET able == {u \in DOMAIN scores :
                    Cardinality({w \in DOMAIN scores : scores[w] > scores[u]}) < kk}
    IN  {sel \in [Z(kk) -> able] :
            /\ \A i, j \in Z(kk) : i # j => sel[i] # sel[j]
            /\ \A u \in able :
                  (\A j \in Z(kk) : sel[j] # u) =>
                      \A j \in Z(kk) : scores[u] <= scores[sel[j]]}

\* line 147: pdxs = beam[t] / n_vocab
PrevIdx(flat) == flat \div n_vocab
\* line 148: beam[t].remainder_(n_vocab)
TokenIdx(flat) == flat % n_vocab

\* (mutation of NewTile: the flat-batch offset of the mask left out)
NewTile_nomask(pd, tt, n, kk) == [i \in Z(n * kk) |-> pd[i \div kk][i % kk]]

\* line 153: tile = pdxs.view(-1) + (nk_mask / k) * (k if t else 1)
NewTile(pd, tt, n, kk) ==
    [i \in Z(n * kk) |->
        pd[i \div kk][i % kk] + (i \div kk) * (IF tt # 0 THEN kk ELSE 1)]

\* lines 155-157: beam[:t] = beam[:t].gather(2, pdxs.repeat(t, 1, 1))
Gather(bm, pd, tt, n, kk) ==
    [s \in DOMAIN bm |->
        IF s < tt
        THEN [b \in DOMAIN bm[s] |->
                 IF b < n THEN [j \in Z(kk) |-> bm[s][b][pd[b][j]]] ELSE bm[s][b]]
        ELSE bm[s]]

\* lines 109-119: every decoder's f_next on the tiled context, the current
\* tokens and the state rows tile selects
\*   s = [nll, beam, idxs, tile, ctx, h, t]
Decoders(s, mods) ==
    LET ctx1 == tile_ctx_dict(s.ctx, s.tile)
    IN  [m \in DOMAIN mods |->
            [i \in DOMAIN s.tile |->
                f_next(mods[m], ctx1[i], s.idxs[i], s.h[s.tile[i]])]]

\* line 117: the log_ps of the decoders
LogPs(s, mods) ==
    LET outs == Decoders(s, mods)
    IN  [m \in DOMAIN mods |-> [i \in DOMAIN s.tile |-> outs[m][i].log_p]]

\* lines 109-124: the forward pass of an iteration
Forward(s) ==
    [ctx |-> tile_ctx_dict(s.ctx, s.tile),
     h |-> [i \in DOMAIN s.tile |-> Decoders(s, models)[0][i].h],
     log_p |-> SuppressUnk(Ensemble(LogPs(s, models)), suppress_unk)]

\* lines 142-157 for one outcome sel of the top-k of every sample
Select(s, n, kk, fw, lg, cands, sel) ==
    LET pd == [b \in Z(n) |-> [j \in Z(kk) |-> PrevIdx(sel[b][j])]]
        row == [b \in DOMAIN s.beam[s.t] |->
                 IF b < n THEN [j \in Z(kk) |-> TokenIdx(sel[b][j])]
                 ELSE s.beam[s.t][b]]
        bm == [s.beam EXCEPT ![s.t] = row]
    IN  [nll |-> [b \in Z(n) |-> [j \in Z(kk) |-> cands[b][sel[b][j]]]],
         beam |-> Gather(bm, pd, s.t, n, kk),
         idxs |-> [i \in Z(n * kk) |-> row[i \div kk][i % kk]],
         tile |-> NewTile(pd, s.t, n, kk),
         ctx |-> fw.ctx,
         h |-> fw.h,
         t |-> s.t + 1,
         log_p |-> lg,
         pdxs |-> pd]

\* the outcomes of the top-k of every sample, given each sample's outcomes tk[b]
Selections(tk, n) ==
    {f \in [Z(n) -> UNION {tk[b] : b \in Z(n)}] : \A b \in Z(n) : f[b] \in tk[b]}

Scored(s, n, kk, fw, lg, cands) ==
    UNION {{Select(s, n, kk, fw, lg, cands, sel) : sel \in Selections(tk, n)}
           : tk \in {[b \in Z(n) |-> TopK(cands[b], kk)]}}

Pinned(s, n, kk, fw, lg) ==
    UNION {Scored(s, n, kk, fw, lg, cands)
           : cands \in {[b \in Z(n) |-> CrossSum(s.nll, lg, b)]}}

\* lines 106-157 without the break: the states one iteration can lead to
Expand(s, n, kk) ==
    UNION {UNION {Pinned(s, n, kk, fw, lg) : lg \in {PinEos(fw.log_p, EosHyps(s.idxs))}}
           : fw \in {Forward(s)}}

Cur == [nll |-> nll, beam |-> beam_storage, idxs |-> idxs, tile |-> tile,
        ctx |-> ctx_dicts, h |-> h_ts, t |-> t]

\* --------------------------------------------------------- after the loop
\* (mutation of PutEos: <eos> written into the row of the whole storage)
PutEos_storage(bm, n, kk) ==
    [bm EXCEPT ![max_len - 1] = [b \in DOMAIN bm[max_len - 1] |-> [j \in Z(kk) |-> eos]]]

\* line 160: beam[max_len - 1] = eos, on the view of the current batch
PutEos(bm, n, kk) ==
    [bm EXCEPT ![max_len - 1] =
        [b \in DOMAIN bm[max_len - 1] |->
            IF b < n THEN [j \in Z(kk) |-> eos] ELSE bm[max_len - 1][b]]]

\* (mutation of Length: the clamp left out)
Length_unclamped(bm, b, j) == Cardinality({s \in DOMAIN bm : bm[s][b][j] > 2})

\* line 163: beam.gt(2).float().sum(0).clamp(min=1), slot (b, j)
Length(bm, b, j) ==
    LET c == Cardinality({s \in DOMAIN bm : bm[s][b][j] > 2})
    IN  IF c < 1 THEN 1 ELSE c

\* lines 165-166: the divisor of a slot of length len, as the fraction num/den
LengthPenalty(len, alpha) ==
    IF alpha > 0 THEN [num |-> Pow(5 + len, alpha), den |-> Pow(6, alpha)]
    ELSE [num |-> len, den |-> 1]

\* nll / lp of one slot is at least that of another: (a / (n1/d1)) >= (b / (n2/d2))
DivGeq(a, p, b, q) == a * p.den * q.num >= b * q.den * p.num

\* line 169: what nll.div_(lp) leaves in nll_storage: the quotients (rounded
\* to the unit) in the rows nll views, if nll is a view of the storage at all
DivInPlace(st, nl, pen, is_view) ==
    IF is_view
    THEN [b \in DOMAIN st |->
             IF b \in DOMAIN nl THEN (nl[b][0] * pen[b][0].den) \div pen[b][0].num
             ELSE st[b]]
    ELSE st

\* (mutation of Best: the division by lp left out, the best raw score)
Best_raw(nl, pen, b, kk) == {j \in Z(kk) : \A j2 \in Z(kk) : nl[b][j] >= nl[b][j2]}

\* lines 169-170: nll.div_(lp).topk(1, largest=True)[1] of one sample
Best(nl, pen, b, kk) ==
    {j \in Z(kk) : \A j2 \in Z(kk) : DivGeq(nl[b][j], pen[b][j], nl[b][j2], pen[b][j2])}

\* lines 173-174: the surface form of the chosen slot of every sample
Hyps(bm, top, n) ==
    [b \in Z(n) |-> idxs_to_sent([s \in DOMAIN bm |-> bm[s][b][top[b]]], 0)]

\* (mutation of RecoverOrder: the stored permutation applied, not inverted)
RecoverOrder_applied(res, dl) ==
    IF dl.store_indices
    THEN [r \in DOMAIN dl.orig_idxs |-> res[dl.orig_idxs[r]]]
    ELSE res

\* lines 177-179: undo the sampler's reordering: results[i] for the (i, j) of
\* enumerate(orig_idxs) sorted (stably) by j
RecoverOrder(res, dl) ==
    IF dl.store_indices
    THEN [r \in DOMAIN dl.orig_idxs |->
             res[CHOOSE i \in DOMAIN dl.orig_idxs :
                   /\ Cardinality({i2 \in DOMAIN dl.orig_idxs :
                          \/ dl.orig_idxs[i2] < dl.orig_idxs[i]
                          \/ (dl.orig_idxs[i2] = dl.orig_idxs[i] /\ i2 < i)}) = r]]
    ELSE res

\* ------------------------------------------------------------------ actions
None == <<>>

Idle ==
    /\ pc = "start" /\ error = "none"
    /\ bi = 1 /\ batch = None /\ n_encoded = 0
    /\ results = <<>>
    /\ beam_storage = None /\ nll_storage = None
    /\ nll = None /\ tile = None /\ ctx_dicts = None /\ h_ts = None
    /\ idxs = None /\ t = 0 /\ log_p = None /\ pdxs = None
    /\ nll_is_view = FALSE
    /\ lens = None /\ lp = None /\ top_hyps = None

\* calls that vary the decoding arguments over one unsorted batch
InitDecode ==
    /\ models \in ModelLists
    /\ data_loader \in {l \in Loaders : Len(l.batches) = 1 /\ ~l.store_indices}
    /\ beam_size \in BeamSizes
    /\ max_len \in 0 .. MaxLen
    /\ lp_alpha \in Alphas
    /\ suppress_unk \in BOOLEAN

\* calls that vary the loader: every order and batching of the samples
InitBatches ==
    /\ models = ZOfSeq(<<0>>)
    /\ data_loader \in Loaders
    /\ beam_size \in BeamSizes
    /\ max_len \in {1, 2}
    /\ lp_alpha = 0
    /\ suppress_unk = FALSE

Init == (InitDecode \/ InitBatches) /\ vocab = StdVocab /\ Idle

\* calls that vary the target vocabulary of the models
InitVocab ==
    /\ models = ZOfSeq(<<0>>)
    /\ data_loader \in {l \in Loaders : Len(l.batches) = 1 /\ ~l.store_indices}
    /\ beam_size \in BeamSizes
    /\ max_len \in 1 .. MaxLen
    /\ lp_alpha = 0
    /\ suppress_unk \in BOOLEAN
    /\ vocab \in Vocabularies
    /\ Idle

\* lines 42-78.  models[0] of an empty list raises IndexError (line 56).
Setup ==
    /\ pc = "start"
    /\ IF models = <<>>
       THEN /\ pc' = "error" /\ error' = "IndexError"
            /\ UNCHANGED <<beam_storage, nll_storage>>
       ELSE /\ pc' = "batches" /\ error' = error
            /\ beam_storage' =
                 [s \in Z(max_len) |-> [b \in Z(max_batch_size) |-> [j \in Z(k) |-> 0]]]
            /\ nll_storage' = [b \in Z(max_batch_size) |-> 0]
    /\ UNCHANGED <<args, bi, batch, n_encoded, results, loop_vars, lens, lp, top_hyps>>

\* lines 80-104: the next batch of the loader.  With max_len = 0 the storage
\* of line 76 has no element: the build either keeps its three dimensions (and
\* the batch is set up, the loop body never runs) or collapses it to a tensor
\* without dimensions, whose narrow(1, ...) of line 85 raises RuntimeError.
BeginBatch ==
    /\ pc = "batches" /\ bi <= Len(data_loader.batches)
    /\ \/ /\ max_len = 0
          /\ pc' = "error" /\ error' = "RuntimeError"
          /\ UNCHANGED <<batch, beam_storage, loop_vars, n_encoded>>
       \/ /\ LET bt == data_loader.batches[bi]
                 n == ZLen(bt)
             IN  /\ batch' = bt
                 \* line 85: beam = beam_storage.narrow(1, 0, batch.size).zero_()
                 /\ beam_storage' =
                      [s \in DOMAIN beam_storage |->
                          [b \in DOMAIN beam_storage[s] |->
                              IF b < n THEN [j \in Z(k) |-> 0] ELSE beam_storage[s][b]]]
                 \* line 91: nll = nll_storage.narrow(0, 0, batch.size).unsqueeze(1)
                 /\ nll' = [b \in Z(n) |-> [j \in Z(1) |-> nll_storage[b]]]
                 /\ nll_is_view' = TRUE
                 /\ tile' = [i \in Z(n) |-> i]
                 /\ ctx_dicts' = encode(bt)
                 /\ h_ts' = f_init(encode(bt))
                 /\ idxs' = get_bos(n)
          /\ n_encoded' = n_encoded + 1
          /\ t' = 0
          /\ pc' = IF max_len > 0 THEN "loop" ELSE "after"
          /\ UNCHANGED <<error, log_p, pdxs>>
    /\ UNCHANGED <<args, bi, results, nll_storage, lens, lp, top_hyps>>

\* lines 106-130: an iteration that ends in the break
StepBreak ==
    /\ pc = "loop"
    /\ AllFinished(EosHyps(idxs), batch_size * k)
    /\ LET fw == Forward(Cur)
       IN  /\ ctx_dicts' = fw.ctx
           /\ h_ts' = fw.h
           /\ log_p' = fw.log_p
           /\ idxs' = EosHyps(idxs)
    /\ pc' = "after"
    /\ UNCHANGED <<args, error, bi, batch, n_encoded, results, beam_storage,
                   nll_storage, nll, nll_is_view, tile, t, pdxs, lens, lp, top_hyps>>

\* lines 106-157: a whole iteration
StepExpand ==
    /\ pc = "loop"
    /\ ~AllFinished(EosHyps(idxs), batch_size * k)
    /\ \E s \in Expand(Cur, batch_size, k) :
         /\ nll' = s.nll /\ beam_storage' = s.beam /\ idxs' = s.idxs
         /\ tile' = s.tile /\ ctx_dicts' = s.ctx /\ h_ts' = s.h /\ t' = s.t
         /\ log_p' = s.log_p /\ pdxs' = s.pdxs
         /\ pc' = IF s.t < max_len THEN "loop" ELSE "after"
    \* lines 142-144: add and topk return new tensors, nll is bound to one
    /\ nll_is_view' = FALSE
    /\ UNCHANGED <<args, error, bi, batch, n_encoded, results, nll_storage,
                   lens, lp, top_hyps>>

\* the decoder-state row of slot i once the loop is over: after the break the
\* rows are those the last forward pass produced, otherwise those tile selects
StateOf(i) == IF t < max_len THEN h_ts[i] ELSE h_ts[tile[i]]

\* lines 159-174.  With max_len = 0 row max_len - 1 does not exist (IndexError).
Finish ==
    /\ pc = "after"
    /\ IF max_len = 0
       THEN /\ pc' = "error" /\ error' = "IndexError"
            /\ UNCHANGED <<bi, results, beam_storage, nll_storage, lens, lp, top_hyps>>
       ELSE LET bm == PutEos(beam_storage, batch_size, k)
                len == [b \in Z(batch_size) |-> [j \in Z(k) |-> Length(bm, b, j)]]
                pen == [b \in Z(batch_size) |-> [j \in Z(k) |->
                          LengthPenalty(len[b][j], lp_alpha)]]
            IN  /\ beam_storage' = bm
                \* line 169: div_ works in place, on the storage when nll is
                \* still its view
                /\ nll_storage' = DivInPlace(nll_storage, nll, pen, nll_is_view)
                /\ lens' = len
                /\ lp' = pen
                /\ \E top \in [Z(batch_size) -> Z(k)] :
                     /\ \A b \in Z(batch_size) : top[b] \in Best(nll, pen, b, k)
                     /\ top_hyps' = top
                     /\ results' = ZCat(results,
                          [b \in Z(batch_size) |->
                              [sent |-> Hyps(bm, top, batch_size)[b],
                               sample |-> batch[b],
                               state |-> StateOf(b * k + top[b]).src]])
                /\ bi' = bi + 1
                /\ pc' = "batches" /\ error' = error
    /\ UNCHANGED <<args, batch, n_encoded, loop_vars>>

\* lines 176-180
Return ==
    /\ pc = "batches" /\ bi > Len(data_loader.batches)
    /\ results' = RecoverOrder(results, data_loader)
    /\ pc' = "done"
    /\ UNCHANGED <<args, error, bi, batch, n_encoded, beam_storage, nll_storage,
                   loop_vars, lens, lp, top_hyps>>

Next == Setup \/ BeginBatch \/ StepBreak \/ StepExpand \/ Finish \/ Return

Spec == Init /\ [][Next]_vars

\* the same program called with any of the vocabularies
SpecVocab == InitVocab /\ [][Next]_vars

\* ------------------------------------------------------------------ claims
NumSamples == ZLen(data_loader.orig_idxs)

\* C1: beam_search returns exactly one decoded string per input sample, and
\* the string at output position i is the hypothesis decoded for the sample
\* whose original index is i (its decoder state descends from that sample),
\* whether or not the batch sampler reordered the samples.
C1_OutputOrder ==
    pc = "done" =>
        /\ DOMAIN results = Z(NumSamples)
        /\ \A i \in Z(NumSamples) :
              results[i].sample = i /\ results[i].state = i

\* a finished call whose sampler stored a permutation that is not its own
\* inverse, over more than one batch
C1_Witness ==
    /\ pc = "done" /\ data_loader.store_indices
    /\ Len(data_loader.batches) >= 2
    /\ \E i \in Z(NumSamples) :
          data_loader.orig_idxs[data_loader.orig_idxs[i]] # i

\* an iteration of the step loop that ran to its end (no break) was taken
Stepped == pc = "loop" /\ t' = t + 1

\* C2: end-token pinning.  At every step t >= 1, a retained slot j of sample b
\* whose ancestor slot held <eos> at step t-1 holds <eos> again and its score
\* is the ancestor's score (the continuation adds exactly 0); so in every
\* slot's recorded prefix <eos> is followed by <eos> only.
C2_EosPinned ==
    [][(Stepped /\ t >= 1) =>
        \A b \in Z(batch_size) : \A j \in Z(k) :
            /\ idxs[b * k + pdxs'[b][j]] = eos =>
                  /\ beam_storage'[t][b][j] = eos
                  /\ nll'[b][j] = nll[b][pdxs'[b][j]]
            /\ \A s \in Z(t) :
                  beam_storage'[s][b][j] = eos => beam_storage'[s + 1][b][j] = eos]_vars

\* a finished slot was continued next to a slot of the same sample that is
\* not finished
C2_Witness ==
    /\ pc = "loop" /\ t >= 2 /\ k = 2
    /\ \E b \in Z(batch_size) : \E j \in Z(k) :
          /\ beam_storage[t - 2][b][j] = eos
          /\ beam_storage[t - 1][b][j] = eos
          /\ beam_storage[t - 1][b][1 - j] # eos

\* the lists of sentences lines 159-174 can return for a batch of n samples
\* whose loop ended with beam bm and scores nl (one list per way the final
\* top-1 may break ties)
Returned(bm, nl, n, kk) ==
    LET fin == PutEos(bm, n, kk)
        pen == [b \in Z(n) |-> [j \in Z(kk) |->
                   LengthPenalty(Length(fin, b, j), lp_alpha)]]
    IN  {Hyps(fin, top, n) :
            top \in {f \in [Z(n) -> Z(kk)] : \A b \in Z(n) : f[b] \in Best(nl, pen, b, kk)}}

RECURSIVE FullLoop(_, _, _)
\* the loop states the step loop can end in when run from state s for all
\* the remaining steps, never taking the break
FullLoop(s, n, kk) ==
    IF s.t >= max_len THEN {s}
    ELSE UNION {FullLoop(s2, n, kk) : s2 \in Expand(s, n, kk)}

\* every beam slot of the current batch holds <eos>
AllSlotsEos ==
    /\ DOMAIN idxs = Z(batch_size * k)
    /\ \A i \in Z(batch_size * k) : idxs[i] = eos

\* C3: early termination.  If every beam slot of the batch has emitted <eos>
\* before max_len steps the loop breaks at that step, and whenever the loop
\* breaks the sentences returned for the batch are those the loop returns when
\* it runs (with pinning) for all max_len steps without the break, up to the
\* arbitrary choice among equal scores.
C3_EarlyExit ==
    [][/\ (pc = "loop" /\ AllSlotsEos) => (pc' = "after" /\ t' = t)
       /\ (pc = "loop" /\ pc' = "after" /\ t' = t) =>
            Returned(beam_storage', nll', batch_size, k)
              = UNION {Returned(f.beam, f.nll, batch_size, k)
                         : f \in FullLoop(Cur, batch_size, k)}]_vars

\* the loop of a batch of two samples and two slots each was left by the break
C3_Witness ==
    /\ pc = "after" /\ max_len > 0 /\ t < max_len
    /\ k = 2 /\ batch_size = 2

\* the rows the decoders returned at the step just taken are all <= 0
RowsNonPositive == \A i \in DOMAIN log_p' : \A v \in Vocab : log_p'[i][v] <= 0

\* C5 as stated: score monotonicity.  With model log-probabilities that are
\* all <= 0, at every step t >= 1 the score top-k selects for a slot is <= the
\* score its ancestor slot had at step t-1, and the two are equal only for the
\* pinned <eos> continuation (a finished ancestor continued by <eos>).
C5_EqualityOnlyPinned ==
    [][(Stepped /\ t >= 1 /\ RowsNonPositive) =>
        \A b \in Z(batch_size) : \A j \in Z(k) :
            /\ nll'[b][j] <= nll[b][pdxs'[b][j]]
            /\ nll'[b][j] = nll[b][pdxs'[b][j]]
                  <=> (idxs[b * k + pdxs'[b][j]] = eos /\ beam_storage'[t][b][j] = eos)]_vars

\* C5 (amended): with model log-probabilities that are all <= 0, at every
\* step t >= 1 the score top-k selects for a slot is <= the score its ancestor
\* slot had at step t-1; it is equal to it exactly when the chosen
\* continuation has log-probability 0, which the pinned <eos> continuation
\* always has (and an unpinned token may have).
C5_ScoreMonotone ==
    [][(Stepped /\ t >= 1 /\ RowsNonPositive) =>
        \A b \in Z(batch_size) : \A j \in Z(k) :
            LET a == pdxs'[b][j]
                tok == beam_storage'[t][b][j]
            IN  /\ nll'[b][j] <= nll[b][a]
                /\ nll'[b][j] = nll[b][a] <=> log_p'[b * k + a][tok] = 0
                /\ idxs[b * k + a] = eos =>
                      (tok = eos /\ log_p'[b * k + a][tok] = 0 /\ nll'[b][j] = nll[b][a])]_vars

\* in one sample a pinned slot kept its score while the other slot went on
\* with a token of negative log-probability
C5_Witness ==
    /\ pc = "loop" /\ t >= 2 /\ k = 2
    /\ \E b \in Z(batch_size) : \E j \in Z(k) :
          /\ beam_storage[t - 2][b][j] = eos /\ beam_storage[t - 1][b][j] = eos
          /\ log_p[b * k + pdxs[b][j]][eos] = 0
          /\ beam_storage[t - 1][b][1 - j] # eos
          /\ log_p[b * k + pdxs[b][1 - j]][beam_storage[t - 1][b][1 - j]] < 0

\* the tokens slot (b, j) holds in rows 0 .. n-1 of beam bm, as a sequence
Prefix(bm, b, j, n) == [s \in 1 .. n |-> bm[s - 1][b][j]]

\* C4: with beam_size = 1 the search is greedy decoding.  At every step and
\* for every sample the one hypothesis is the previous one extended by an
\* arg-max token of the step's ensembled, suppressed, pinned row; its state
\* and context rows are those of the same sample; and its score, 0 before the
\* first step, grows by the log-probability of the chosen token.
C4_Greedy ==
    [][(Stepped /\ k = 1) =>
        \A b \in Z(batch_size) :
            LET tok == beam_storage'[t][b][0]
            IN  /\ \A v \in Vocab : log_p'[b][v] <= log_p'[b][tok]
                /\ \A s \in Z(t) : beam_storage'[s][b][0] = beam_storage[s][b][0]
                /\ idxs'[b] = tok
                /\ t = 0 => nll[b][0] = 0
                /\ nll'[b][0] = nll[b][0] + log_p'[b][tok]
                /\ tile'[b] = b
                /\ h_ts'[b].src = batch[b]
                /\ h_ts'[b].ys = <<bos>> \o Prefix(beam_storage', b, 0, t)
                /\ ctx_dicts'[b] = batch[b]]_vars

\* a greedy search over two samples, one of them finished and pinned
C4_Witness ==
    /\ pc = "loop" /\ k = 1 /\ t >= 2 /\ batch_size = 2
    /\ \E b \in Z(batch_size) :
          /\ beam_storage[t - 2][b][0] = eos /\ beam_storage[t - 1][b][0] = eos
          /\ beam_storage[t - 1][1 - b][0] # eos

\* the call violates a precondition the code can be given: no model, or a
\* non-positive max_len
BadCall == models = <<>> \/ max_len <= 0

\* C6: eager rejection.  A call that violates a precondition (here: an empty
\* model list, or max_len <= 0) ends in a configuration error raised at the
\* start of beam_search: it never gets past the start, no batch is encoded, and
\* the error it ends in is a configuration error.
C6_EagerRejection ==
    BadCall =>
        /\ pc \in {"start", "error"}
        /\ n_encoded = 0
        /\ pc = "error" => error = "ConfigurationError"

Finished == pc = "batches" /\ bi > 1

\* the number of time positions of slot (b, j) whose token is none of the
\* vocabulary's pad, begin and end ids
ContentTokens(b, j) ==
    Cardinality({s \in Z(max_len) : beam_storage[s][b][j] \notin {pad, bos, eos}})

\* C8: length computation.  After the step loop the length of every beam slot
\* is the number of positions of its token sequence holding none of the pad,
\* begin and end ids, and 1 when there is no such position.
C8_Lengths ==
    Finished =>
        \A b \in Z(batch_size) : \A j \in Z(k) :
            lens[b][j] = IF ContentTokens(b, j) = 0 THEN 1 ELSE ContentTokens(b, j)

\* a batch in which one slot holds special tokens only and another holds two
\* content tokens or more
C8_Witness ==
    /\ Finished
    /\ \E b \in Z(batch_size) : \E j \in Z(k) : ContentTokens(b, j) = 0
    /\ \E b \in Z(batch_size) : \E j \in Z(k) : ContentTokens(b, j) >= 2

\* the claimed divisor of a slot of length len, as the fraction num / den
Divisor(len) ==
    IF lp_alpha = 0 THEN [num |-> len, den |-> 1]
    ELSE [num |-> Pow(5 + len, lp_alpha), den |-> Pow(6, lp_alpha)]

\* C9: final selection.  The sentence returned for a sample is the token
\* sequence of a slot whose score divided by the divisor is largest, the
\* divisor being the content length when lp_alpha = 0 and
\* ((5 + len)^lp_alpha) / (6^lp_alpha) when lp_alpha > 0; len = 5 with
\* lp_alpha = 1 gives 10/6.
C9_FinalSelection ==
    /\ LengthPenalty(5, 1).num * 6 = 10 * LengthPenalty(5, 1).den
    /\ Finished =>
        \A b \in Z(batch_size) :
            LET top == top_hyps[b]
                d(j) == Divisor(lens[b][j])
            IN  /\ \A j \in Z(k) :
                      /\ lp[b][j].num * d(j).den = d(j).num * lp[b][j].den
                      \* nll[top] / d(top) >= nll[j] / d(j)
                      /\ nll[b][top] * d(top).den * d(j).num
                           >= nll[b][j] * d(j).den * d(top).num
                /\ results[ZLen(results) - batch_size + b].sent
                     = idxs_to_sent([s \in Z(max_len) |-> beam_storage[s][b][top]], 0)

\* with lp_alpha > 0 the slot chosen for a sample is not the slot of the
\* best raw score
C9_Witness ==
    /\ Finished /\ lp_alpha > 0 /\ k = 2
    /\ \E b \in Z(batch_size) : \E j \in Z(k) : nll[b][j] > nll[b][top_hyps[b]]

\* C10: slot alignment.  After every step t, for every sample b and slot j:
\* the recorded prefix is the ancestor's prefix extended by the chosen token,
\* the score is the ancestor's score plus that token's log-probability, the
\* state row the active-index list selects is the one produced from the
\* ancestor (it has consumed <bos> and the prefix before the chosen token, and
\* descends from sample b), and the context column the next step reads, like
\* the one this step read, is that of sample b.
C10_SlotAlignment ==
    [][Stepped =>
        \A b \in Z(batch_size) : \A j \in Z(k) :
            LET i == b * k + j
                W == ZLen(nll[b])
                a == pdxs'[b][j]
                tok == beam_storage'[t][b][j]
            IN  /\ a \in Z(W)
                /\ \A s \in Z(t) : beam_storage'[s][b][j] = beam_storage[s][b][a]
                /\ idxs'[i] = tok
                /\ nll'[b][j] = nll[b][a] + log_p'[b * W + a][tok]
                /\ tile'[i] = b * W + a
                /\ h_ts'[tile'[i]].src = batch[b]
                /\ h_ts'[tile'[i]].ys = <<bos>> \o Prefix(beam_storage', b, j, t)
                /\ ctx_dicts'[tile'[i]] = batch[b]
                /\ tile_ctx_dict(ctx_dicts', tile')[i] = batch[b]]_vars

\* in the second sample of a batch both retained slots descend from slot 1,
\* or the two slots changed places
C10_Witness ==
    /\ pc = "loop" /\ t >= 2 /\ k = 2 /\ batch_size = 2
    /\ pdxs[1][0] = 1

\* row i of the step's scored log-probabilities is a pinned row of <eos>:
\* 0 at the vocabulary's <eos> entry and the sentinel everywhere else
PinnedAtEos(lg, i) ==
    lg[i][eos] = 0 /\ \A v \in Vocab \ {eos} : lg[i][v] = inf

\* C11: end-of-sequence id consistency.  For every target vocabulary the id
\* beam_search tests to detect finished slots is the vocabulary's <eos> id:
\* the loop breaks exactly when every slot holds that id, at every completed
\* step exactly the rows of the slots holding it are pinned, with the 0 at its
\* entry, and it is the id written into row max_len - 1 after the loop.
C11_EosIdConsistent ==
    [][/\ (pc = "loop" /\ pc' = "after" /\ t' = t) <=> (pc = "loop" /\ AllSlotsEos)
       /\ Stepped =>
            \A i \in DOMAIN idxs : idxs[i] = eos <=> PinnedAtEos(log_p', i)
       /\ (pc = "after" /\ pc' = "batches") =>
            \A b \in Z(batch_size) : \A j \in Z(k) :
                beam_storage'[max_len - 1][b][j] = eos]_vars

\* the loop state of a batch bt decoded on storages no batch has used
FreshCur(bt) ==
    [nll |-> [b \in DOMAIN bt |-> [j \in Z(1) |-> 0]],
     beam |-> [s \in Z(max_len) |-> [b \in Z(max_batch_size) |-> [j \in Z(k) |-> 0]]],
     idxs |-> get_bos(ZLen(bt)),
     tile |-> [i \in DOMAIN bt |-> i],
     ctx |-> encode(bt),
     h |-> f_init(encode(bt)),
     t |-> 0]

\* loop state s of a batch of n samples with the rows of the beam storage
\* outside the batch's view as no batch has left them (all zeros)
Clean(s, n) ==
    [s EXCEPT !.beam =
        [r \in DOMAIN s.beam |->
            [b \in DOMAIN s.beam[r] |->
                IF b < n THEN s.beam[r][b] ELSE [j \in Z(k) |-> 0]]]]

\* what the batch of n samples sees of loop state s: the beam of its view
ViewOf(s, n) ==
    [s EXCEPT !.beam = [r \in DOMAIN s.beam |-> [b \in Z(n) |-> s.beam[r][b]]]]

\* the loop state after the step just taken
CurNext ==
    [nll |-> nll', beam |-> beam_storage', idxs |-> idxs', tile |-> tile',
     ctx |-> ctx_dicts', h |-> h_ts', t |-> t', log_p |-> log_p', pdxs |-> pdxs']

\* the sentences the batch just finished contributed to results
LastSents == [b \in Z(batch_size) |-> results'[ZLen(results') - batch_size + b].sent]

\* C12: batch independence under storage reuse.  Once allocated, nll_storage
\* is never modified (it stays all 0) and the beam storage is written only in
\* the rows of the view narrowed to the current batch.  At the start of every
\* batch's step loop the scores are all 0 and the beam view is all zeros: the
\* loop starts in the state it starts in on storages no batch has used.  And
\* what is decoded for a batch that follows other batches does not depend on
\* them: where earlier batches left rows outside the view, every step and the
\* final selection lead to what they lead to when those rows are fresh.
C12_BatchIndependence ==
    [][pc # "start" =>
        /\ nll_storage' = nll_storage
        /\ \A b \in DOMAIN nll_storage' : nll_storage'[b] = 0
        /\ \A s \in DOMAIN beam_storage : \A b \in DOMAIN beam_storage[s] :
              b >= ZLen(batch') => beam_storage'[s][b] = beam_storage[s][b]
        /\ (pc = "batches" /\ pc' = "loop") =>
              /\ \A b \in Z(ZLen(batch')) : nll'[b] = [j \in Z(1) |-> 0]
              /\ \A s \in Z(max_len) : \A b \in Z(ZLen(batch')) : \A j \in Z(k) :
                    beam_storage'[s][b][j] = 0
              /\ ViewOf([nll |-> nll', beam |-> beam_storage', idxs |-> idxs',
                         tile |-> tile', ctx |-> ctx_dicts', h |-> h_ts', t |-> t'],
                        ZLen(batch'))
                   = ViewOf(FreshCur(batch'), ZLen(batch'))
        /\ (Stepped /\ bi > 1 /\ Clean(Cur, batch_size) # Cur) =>
              ViewOf(CurNext, batch_size)
                \in {ViewOf(x, batch_size) : x \in Expand(Clean(Cur, batch_size), batch_size, k)}
        /\ (pc = "after" /\ pc' = "batches" /\ bi > 1) =>
              LastSents \in Returned(Clean(Cur, batch_size).beam, nll, batch_size, k)]_vars

\* a batch of one sample has been decoded after a batch of two on a storage of
\* two rows, the second row still holding a content token of the first batch
C12_Witness ==
    /\ pc = "batches" /\ bi >= 3 /\ batch_size = 1 /\ max_batch_size = 2
    /\ ZLen(data_loader.batches[bi - 2]) = 2
    /\ \E s \in Z(max_len) : \E j \in Z(k) : beam_storage[s][1][j] > 2

====
